---- MODULE Spec2Model ----
(***************************************************************************)
(* Client registration / authentication backend                            *)
(* (backend/src/controllers/client.controllers.js, models/client.model.js) *)
(*                                                                         *)
(* The state is the "clients" collection of the document store, the wall   *)
(* clock, and the response of the request handled last.  Every controller  *)
(* is one action under Spec and SpecRead.  Under SpecUnique and            *)
(* SpecRefresh a handler is a sequence of steps, one per awaited access to *)
(* the store, kept in "inflight" together with what the handler holds in   *)
(* its local variables; there every request carries its own response.      *)
(*                                                                         *)
(* Conventions                                                             *)
(*  - request fields are strings; "" is a blank (falsy) field;             *)
(*  - JavaScript null / undefined / Date values are tagged records, so a   *)
(*    field that was $unset (undefined) differs from one stored as null;   *)
(*  - a JWT is the record of what jsonwebtoken signs: the secret, the      *)
(*    payload and iat = floor(Date.now() / 1000).  HS256 is deterministic, *)
(*    so two tokens with the same secret, payload and iat are the same     *)
(*    string.  Token expiry (an environment setting) lies beyond the       *)
(*    horizon of the model;                                                *)
(*  - bcrypt.hash is modelled by the number of times it was applied to a   *)
(*    plaintext (the random salt does not matter to bcrypt.compare);       *)
(*  - the auth guard in front of logout / update / getCurrent is not part  *)
(*    of the controller: the caller is any registered client (registering  *)
(*    hands out an access token).                                          *)
(***************************************************************************)
EXTENDS Integers, Sequences, FiniteSets, TLC

VARIABLES clients, now, resp, inflight

vars == <<clients, now, resp, inflight>>

----------------------------------------------------------------------------
(* Bounds of the model *)

\* Cap on the records of the store under Spec.  Two emails and two phones are in
\* use, so the uniqueness checks keep the store at two records; the cap leaves
\* room for a third, which only a broken uniqueness check could create.
MaxClients == 3

MaxListClients == 3

MaxPage == 3

MaxLimit == 2

\* Requests handled at the same time under SpecUnique and SpecRefresh.
MaxRequests == 2

----------------------------------------------------------------------------
(* Values *)

Null == [tag |-> "null"]

Undefined == [tag |-> "undefined"]

Str(s) == [tag |-> "string", v |-> s]

Date(t) == [tag |-> "date", v |-> t]

EmailPool == <<"a@x.io", "b@x.io", "c@x.io", "d@x.io", "e@x.io">>

PhonePool == <<"+911", "+912", "+913", "+914", "+915">>

Emails == {EmailPool[1], EmailPool[2]}

Phones == {PhonePool[1], PhonePool[2]}

JsLess(value, t) ==
    IF value.tag = "date" THEN value.v < t
    ELSE IF value = Null THEN 0 < t
    ELSE FALSE

BadPhone == "0123"

Passwords == {"pw1", "pw2"}

Genders == {"Male", "Female", "Other"}

\* The codes a caller may submit, and the code the generator draws (one
\* representative of [100000, 999999]; the other code is a wrong guess).
Otps == {"100000", "999999"}

GeneratedOtps == {"100000"}

OtpWindowMs == 5 * 60 * 1000

\* Instants (ms) at which requests arrive: the start, the instant an OTP issued
\* at the start expires, and one millisecond later.  Requests handled without a
\* Tick in between fall in the same millisecond, hence in the same JWT second.
TimePoints == {0, OtpWindowMs, OtpWindowMs + 1}

----------------------------------------------------------------------------
(* client.model.js *)

PhoneMatches(phone) == \E i \in 1..Len(PhonePool) : PhonePool[i] = phone

IsBlank(field) == field = ""

SchemaValid(doc) ==
    /\ ~IsBlank(doc.name)
    /\ ~IsBlank(doc.email)
    /\ ~IsBlank(doc.phone)
    /\ PhoneMatches(doc.phone)
    /\ doc.gender \in Genders

Plain(p) == [plain |-> p, rounds |-> 0]

BcryptHash(value) == [plain |-> value.plain, rounds |-> value.rounds + 1]

BcryptCompare(password, hash) == hash = BcryptHash(Plain(password))

PreSave(doc, passwordModified) ==
    IF ~passwordModified THEN doc
    ELSE [doc EXCEPT !.password = BcryptHash(doc.password)]

IsPasswordCorrect(doc, password) == BcryptCompare(password, doc.password)

JwtIat(t) == t \div 1000

GenerateAccessToken(doc, t) ==
    [tag |-> "jwt", secret |-> "ACCESS_TOKEN_SECRET", id |-> doc._id,
     email |-> doc.email, tokenVersion |-> doc.tokenVersion, iat |-> JwtIat(t)]

GenerateRefreshToken(doc, t) ==
    [tag |-> "jwt", secret |-> "REFRESH_TOKEN_SECRET", id |-> doc._id,
     iat |-> JwtIat(t)]

----------------------------------------------------------------------------
(* The document store *)

Ids(store) == DOMAIN store

FindOneByEmail(store, email) == {id \in Ids(store) : store[id].email = email}

FindOneByEmailOrPhone(store, email, phone, exceptId) ==
    {id \in Ids(store) \ {exceptId} :
        store[id].email = email \/ store[id].phone = phone}

UniqueIndexViolated_NoIndex(store, doc) == FALSE

UniqueIndexViolated(store, doc) ==
    \E id \in Ids(store) \ {doc._id} :
        store[id].email = doc.email \/ store[id].phone = doc.phone

Put(store, doc) ==
    [id \in Ids(store) \cup {doc._id} |-> IF id = doc._id THEN doc ELSE store[id]]

NewDoc(id, req, otp, t) ==
    [_id |-> id, name |-> req.name, email |-> req.email, age |-> req.age,
     gender |-> req.gender, password |-> Plain(req.password), phone |-> req.phone,
     avatar |-> "", verified |-> FALSE, refreshToken |-> Null, tokenVersion |-> 0,
     otp |-> Str(otp), otpExpires |-> Date(t + OtpWindowMs)]

OptionalFields == {"otp", "otpExpires"}

Select(doc, excluded) ==
    [f \in {g \in DOMAIN doc \ excluded :
               ~(g \in OptionalFields /\ doc[g] = Undefined)} |-> doc[f]]

----------------------------------------------------------------------------
(* Responses *)

NoCookies == [tag |-> "none"]

ClearedCookies == [tag |-> "cleared"]

TokenCookies(accessToken, refreshToken) ==
    [tag |-> "set", accessToken |-> accessToken, refreshToken |-> refreshToken]

ApiError(op, status, message) ==
    [op |-> op, status |-> status, message |-> message,
     data |-> Null, cookies |-> NoCookies, query |-> Null]

ApiResponse(op, status, data, message, cookies) ==
    [op |-> op, status |-> status, message |-> message,
     data |-> data, cookies |-> cookies, query |-> Null]

NoResponse == ApiError("none", 0, "")

----------------------------------------------------------------------------
(* client.controllers.js *)

GenerateOTP == GeneratedOtps

\* Outcome of the two notifications of registerClient, sent in this order: the
\* SMS (sendOtp), then the e-mail (transporter.sendMail).  Each is awaited, so a
\* rejection of either ends the handler.
Sinks == {"sent", "SMS failed", "Email failed"}

NotificationsSent_Ignored(sink) == TRUE

NotificationsSent(sink) == sink = "sent"

GenerateAccessRefreshTokens_NotSaved(store, clientId, t) ==
    [store |-> store,
     accessToken |-> GenerateAccessToken(store[clientId], t),
     refreshToken |-> GenerateRefreshToken(store[clientId], t)]

GenerateAccessRefreshTokens(store, clientId, t) ==
    LET client == store[clientId]
        accessToken == GenerateAccessToken(client, t)
        refreshToken == GenerateRefreshToken(client, t)
    IN  [store |-> [store EXCEPT ![clientId].refreshToken = refreshToken],
         accessToken |-> accessToken,
         refreshToken |-> refreshToken]

AllFieldsPresent(req) ==
    ~(\E field \in {req.name, req.email, req.phone, req.password, req.age, req.gender} :
         IsBlank(field))

CreateFailure_Conflict(op) == ApiError(op, 400, "Email or phone already exists")

CreateFailure(op) == ApiError(op, 500, "Could not create client")

ExistingClient_EmailOnly(store, req) == FindOneByEmail(store, req.email)

ExistingClient(store, req) == FindOneByEmailOrPhone(store, req.email, req.phone, 0)

RegisterClient(req, otp, sink) ==
    LET op == "registerClient"
        id == Cardinality(Ids(clients)) + 1
        client == PreSave(NewDoc(id, req, otp, now), TRUE)
        tokens == GenerateAccessRefreshTokens(Put(clients, client), id, now)
    IN
    IF ~AllFieldsPresent(req) THEN
        /\ resp' = ApiError(op, 400, "All fields are required")
        /\ UNCHANGED <<clients, now>>
    ELSE IF ExistingClient(clients, req) # {} THEN
        /\ resp' = ApiError(op, 400, "Email or phone already exists")
        /\ UNCHANGED <<clients, now>>
    ELSE IF ~NotificationsSent(sink) THEN
        /\ resp' = ApiError(op, 500, sink)
        /\ UNCHANGED <<clients, now>>
    ELSE IF ~SchemaValid(client) \/ UniqueIndexViolated(clients, client) THEN
        /\ resp' = CreateFailure(op)
        /\ UNCHANGED <<clients, now>>
    ELSE
        /\ clients' = tokens.store
        /\ resp' = ApiResponse(op, 201, Select(client, {}),
                               "Client registered successfully!",
                               TokenCookies(tokens.accessToken, tokens.refreshToken))
        /\ UNCHANGED now

LoginOutcome_NoVerifiedCheck(found, password) ==
    IF found = {} THEN "Requested user doesn't exist"
    ELSE IF ~IsPasswordCorrect(clients[CHOOSE id \in found : TRUE], password)
         THEN "Invalid user credentials"
         ELSE "ok"

LoginOutcome(found, password) ==
    IF found = {} THEN "Requested user doesn't exist"
    ELSE LET client == clients[CHOOSE id \in found : TRUE] IN
         IF ~IsPasswordCorrect(client, password) THEN "Invalid user credentials"
         ELSE IF ~client.verified THEN "Please verify your email first"
         ELSE "ok"

LoginClient(email, password) ==
    LET op == "loginClient"
        found == FindOneByEmail(clients, email)
        outcome == LoginOutcome(found, password)
    IN
    IF outcome = "Requested user doesn't exist" THEN
        /\ resp' = ApiError(op, 404, outcome)
        /\ UNCHANGED <<clients, now>>
    ELSE IF outcome # "ok" THEN
        /\ resp' = ApiError(op, 401, outcome)
        /\ UNCHANGED <<clients, now>>
    ELSE
        LET id == CHOOSE i \in found : TRUE
            tokens == GenerateAccessRefreshTokens(clients, id, now)
            loggedUserFromDB == Select(tokens.store[id], {"password", "refreshToken"})
        IN  /\ clients' = tokens.store
            /\ resp' = ApiResponse(op, 200,
                                   [client |-> loggedUserFromDB,
                                    accessToken |-> tokens.accessToken,
                                    refreshToken |-> tokens.refreshToken],
                                   "Client logged in successfully!",
                                   TokenCookies(tokens.accessToken, tokens.refreshToken))
            /\ UNCHANGED now

OtpRejectedByEmail_NoExpiry(client, otp, t) == client.otp # Str(otp)

OtpRejectedByEmail(client, otp, t) ==
    client.otp # Str(otp) \/ JsLess(client.otpExpires, t)

VerifiedByEmail_KeepsOtp(client) == [client EXCEPT !.verified = TRUE]

VerifiedByEmail(client) ==
    [client EXCEPT !.verified = TRUE, !.otp = Undefined, !.otpExpires = Undefined]

VerifyEmail(email, otp) ==
    LET op == "verifyEmail"
        found == FindOneByEmail(clients, email)
    IN
    IF IsBlank(email) \/ IsBlank(otp) THEN
        /\ resp' = ApiError(op, 400, "Email and OTP are required")
        /\ UNCHANGED <<clients, now>>
    ELSE IF found = {} THEN
        /\ resp' = ApiError(op, 400, "Client not found")
        /\ UNCHANGED <<clients, now>>
    ELSE
        LET id == CHOOSE i \in found : TRUE
            client == clients[id]
        IN  IF OtpRejectedByEmail(client, otp, now) THEN
                /\ resp' = ApiError(op, 400, "Invalid or expired OTP")
                /\ UNCHANGED <<clients, now>>
            ELSE
                /\ clients' = [clients EXCEPT
                                 ![id] = PreSave(VerifiedByEmail(client), FALSE)]
                /\ resp' = ApiResponse(op, 200,
                                       [message |-> "Email verified successfully"],
                                       "Success", NoCookies)
                /\ UNCHANGED now

LoggedOut_KeepsToken(client) == client

LoggedOut(client) == [client EXCEPT !.refreshToken = Null]

LogoutClient(id) ==
    /\ id \in Ids(clients)
    /\ clients' = [clients EXCEPT ![id] = LoggedOut(clients[id])]
    /\ resp' = ApiResponse("logoutClient", 200, id,
                           "Client logged out successfully", ClearedCookies)
    /\ UNCHANGED now

UpdatedPassword_ResetsVerified(client, password) ==
    [client EXCEPT !.verified = FALSE,
                   !.password = IF IsBlank(password) THEN @
                                ELSE BcryptHash(Plain(password))]

UpdatedPassword(client, password) ==
    IF IsBlank(password) THEN client
    ELSE [client EXCEPT !.password = BcryptHash(Plain(password))]

UpdateClient(id, req) ==
    LET op == "updateClient"
        client == clients[id]
        existingClient == FindOneByEmailOrPhone(clients, req.email, req.phone, id)
        assigned == [UpdatedPassword(client, req.password) EXCEPT
                        !.name = req.name, !.email = req.email, !.phone = req.phone,
                        !.age = req.age, !.gender = req.gender]
        saved == PreSave(assigned, assigned.password # client.password)
    IN
    /\ id \in Ids(clients)
    /\ IF (req.email # client.email \/ req.phone # client.phone) /\ existingClient # {} THEN
           /\ resp' = ApiError(op, 400, "Email or phone already in use")
           /\ UNCHANGED <<clients, now>>
       ELSE IF ~SchemaValid(assigned) THEN
           /\ resp' = ApiError(op, 500, "ValidationError")
           /\ UNCHANGED <<clients, now>>
       ELSE IF UniqueIndexViolated(clients, assigned) THEN
           /\ resp' = ApiError(op, 500, "MongoServerError")
           /\ UNCHANGED <<clients, now>>
       ELSE
           /\ clients' = [clients EXCEPT ![id] = saved]
           /\ resp' = ApiResponse(op, 200, Select(saved, {}),
                                  "Client updated successfully", NoCookies)
           /\ UNCHANGED now

JwtVerify(token, secret) == token.tag = "jwt" /\ token.secret = secret

RefreshRejected(store, incomingToken) ==
    \/ incomingToken.id \notin Ids(store)
    \/ incomingToken # store[incomingToken.id].refreshToken

RefreshAccessToken(incomingToken) ==
    LET op == "refreshAccessToken" IN
    IF incomingToken = Undefined THEN
        /\ resp' = ApiError(op, 401, "Unauthorized request")
        /\ UNCHANGED <<clients, now>>
    ELSE IF ~JwtVerify(incomingToken, "REFRESH_TOKEN_SECRET") THEN
        /\ resp' = ApiError(op, 500, "JsonWebTokenError")
        /\ UNCHANGED <<clients, now>>
    ELSE IF RefreshRejected(clients, incomingToken) THEN
        /\ resp' = ApiError(op, 401, "Invalid or expired refresh token")
        /\ UNCHANGED <<clients, now>>
    ELSE
        LET tokens == GenerateAccessRefreshTokens(clients, incomingToken.id, now)
        IN  /\ clients' = tokens.store
            /\ resp' = ApiResponse(op, 200,
                                   [accessToken |-> tokens.accessToken,
                                    refreshToken |-> tokens.refreshToken],
                                   "Token refreshed",
                                   TokenCookies(tokens.accessToken, tokens.refreshToken))
            /\ UNCHANGED now

OtpRejectedById_NoExpiry(client, otp, t) == client.otp # Str(otp)

OtpRejectedById(client, otp, t) ==
    client.otp # Str(otp) \/ JsLess(client.otpExpires, t)

VerifiedById(client) ==
    [client EXCEPT !.verified = TRUE, !.otp = Null, !.otpExpires = Null]

VerifyOtp(clientId, otp) ==
    LET op == "verifyOtp" IN
    IF clientId = 0 \/ IsBlank(otp) THEN
        /\ resp' = ApiError(op, 400, "Client ID and OTP are required")
        /\ UNCHANGED <<clients, now>>
    ELSE IF clientId \notin Ids(clients) THEN
        /\ resp' = ApiError(op, 404, "Client not found")
        /\ UNCHANGED <<clients, now>>
    ELSE
        LET client == clients[clientId]
            accessToken == [tag |-> "jwt", secret |-> "ACCESS_TOKEN_SECRET",
                            id |-> clientId, iat |-> JwtIat(now)]
            refreshToken == [tag |-> "jwt", secret |-> "REFRESH_TOKEN_SECRET",
                             id |-> clientId, iat |-> JwtIat(now)]
        IN  IF OtpRejectedById(client, otp, now) THEN
                /\ resp' = ApiError(op, 400, "Invalid or expired OTP")
                /\ UNCHANGED <<clients, now>>
            ELSE
                /\ clients' = [clients EXCEPT
                                 ![clientId] = PreSave(VerifiedById(client), FALSE)]
                /\ resp' = ApiResponse(op, 200,
                                       [clientId |-> clientId,
                                        message |-> "OTP verified successfully!"],
                                       "Success", TokenCookies(accessToken, refreshToken))
                /\ UNCHANGED now

GetCurrentClient(id) ==
    /\ id \in Ids(clients)
    /\ resp' = ApiResponse("getCurrentClient", 200,
                           Select(clients[id],
                                  {"password", "refreshToken", "otp", "otpExpires", "__v"}),
                           "Current Client Data", NoCookies)
    /\ UNCHANGED <<clients, now>>

Min(a, b) == IF a < b THEN a ELSE b

Ceil_Floor(a, b) == a \div b

Ceil(a, b) == (a + b - 1) \div b

MatchesFilter(doc, verified, gender) ==
    /\ verified # "undefined" => doc.verified = (verified = "true")
    /\ ~IsBlank(gender) => doc.gender = gender

Sorted(ids, sortOrder) ==
    [k \in 1..Cardinality(ids) |->
        CHOOSE i \in ids :
           Cardinality({j \in ids : IF sortOrder = "asc" THEN j < i ELSE j > i}) = k - 1]

SkipLimit(sorted, skip, limit) == SubSeq(sorted, skip + 1, Min(skip + limit, Len(sorted)))

Pagination(page, limit, totalClients) ==
    LET totalPages == Ceil(totalClients, limit)
    IN  [currentPage |-> page, totalPages |-> totalPages, totalClients |-> totalClients,
         hasNextPage |-> page < totalPages, hasPrevPage |-> page > 1]

GetAllClients(page, limit, verified, gender, sortOrder) ==
    LET matching == {id \in Ids(clients) : MatchesFilter(clients[id], verified, gender)}
        skip == (page - 1) * limit
        totalClients == Cardinality(matching)
        found == SkipLimit(Sorted(matching, sortOrder), skip, limit)
        docs == [k \in 1..Len(found) |->
                    Select(clients[found[k]],
                           {"password", "refreshToken", "otp", "otpExpires",
                            "verificationToken"})]
        query == [page |-> page, limit |-> limit, verified |-> verified,
                  gender |-> gender, sortOrder |-> sortOrder]
    IN  /\ resp' = [ApiResponse("getAllClients", 200,
                                [clients |-> docs,
                                 pagination |-> Pagination(page, limit, totalClients)],
                                "Clients retrieved successfully", NoCookies)
                    EXCEPT !.query = query]
        /\ UNCHANGED <<clients, now>>

GetClientById(clientId) ==
    LET op == "getClientById" IN
    IF clientId = 0 THEN
        /\ resp' = ApiError(op, 400, "Client ID is required")
        /\ UNCHANGED <<clients, now>>
    ELSE IF clientId \notin Ids(clients) THEN
        /\ resp' = ApiError(op, 404, "Client not found")
        /\ UNCHANGED <<clients, now>>
    ELSE
        /\ resp' = ApiResponse(op, 200,
                               Select(clients[clientId],
                                      {"password", "refreshToken", "otp", "otpExpires",
                                       "verificationToken"}),
                               "Client retrieved successfully", NoCookies)
        /\ UNCHANGED <<clients, now>>

Tick(t) ==
    /\ t > now
    /\ now' = t
    /\ resp' = NoResponse
    /\ UNCHANGED clients

----------------------------------------------------------------------------
(* Requests.  Register always sets "pw1" and UpdateProfile "pw2" (or leaves the *)
(* password alone); Login tries both.                                          *)

Request(name, email, phone, password) ==
    [name |-> name, email |-> email, phone |-> phone, password |-> password,
     age |-> "30", gender |-> "Female"]

RegisterInputs ==
    {Request("Asha", email, phone, password) :
        email \in Emails, phone \in Phones, password \in {"pw1"}}
    \cup {Request("", email, PhonePool[1], "pw1") : email \in Emails}
    \cup {Request("Asha", email, BadPhone, "pw1") : email \in Emails}

UpdateInputs ==
    {Request("Asha", email, phone, password) :
        email \in Emails, phone \in Phones, password \in {"pw2", ""}}
    \cup {Request("Asha", email, BadPhone, "") : email \in Emails}

ForgedToken == [tag |-> "jwt", secret |-> "unknown", id |-> 1, iat |-> 0]

SignedRefreshTokens ==
    {GenerateRefreshToken(clients[id], t) :
        id \in Ids(clients), t \in {u \in TimePoints : u <= now}}

Slots == 1..MaxRequests

Idle == [op |-> "none", pc |-> "done", args |-> Null, held |-> Null, resp |-> NoResponse]

Init ==
    /\ clients = <<>>
    /\ now = 0
    /\ resp = NoResponse
    /\ inflight = [s \in Slots |-> Idle]

Next ==
    \/ \E req \in RegisterInputs, otp \in GenerateOTP, sink \in Sinks :
          /\ RegisterClient(req, otp, sink) /\ Cardinality(Ids(clients')) <= MaxClients
          /\ UNCHANGED inflight
    \/ \E email \in Emails, password \in Passwords :
          LoginClient(email, password) /\ UNCHANGED inflight
    \/ \E email \in Emails \cup {""}, otp \in Otps \cup {""} :
          VerifyEmail(email, otp) /\ UNCHANGED inflight
    \/ \E id \in 1..MaxClients : LogoutClient(id) /\ UNCHANGED inflight
    \/ \E id \in 1..MaxClients, req \in UpdateInputs :
          UpdateClient(id, req) /\ UNCHANGED inflight
    \/ \E token \in SignedRefreshTokens \cup {Undefined, ForgedToken} :
          RefreshAccessToken(token) /\ UNCHANGED inflight
    \/ \E clientId \in 0..MaxClients, otp \in Otps \cup {""} :
          VerifyOtp(clientId, otp) /\ UNCHANGED inflight
    \/ \E t \in TimePoints : Tick(t) /\ UNCHANGED inflight

Spec == Init /\ [][Next]_vars

ListRequest(i) ==
    [name |-> "Asha", email |-> EmailPool[i], phone |-> PhonePool[i],
     password |-> "pw1", age |-> "30",
     gender |-> IF i % 2 = 1 THEN "Male" ELSE "Female"]

NextRead ==
    \/ /\ Cardinality(Ids(clients)) < MaxListClients
       /\ RegisterClient(ListRequest(Cardinality(Ids(clients)) + 1), "100000", "sent")
       /\ UNCHANGED inflight
    \/ \E i \in 1..MaxListClients : VerifyEmail(EmailPool[i], "100000") /\ UNCHANGED inflight
    \/ \E id \in 1..MaxListClients : GetCurrentClient(id) /\ UNCHANGED inflight
    \/ \E page \in 1..MaxPage, limit \in 1..MaxLimit,
          verified \in {"undefined", "true", "false"}, gender \in {"", "Male"},
          sortOrder \in {"asc", "desc"} :
          GetAllClients(page, limit, verified, gender, sortOrder) /\ UNCHANGED inflight
    \/ \E clientId \in 0..MaxListClients : GetClientById(clientId) /\ UNCHANGED inflight

SpecRead == Init /\ [][NextRead]_vars

----------------------------------------------------------------------------
(* Handlers as sequences of steps.  A step runs from one awaited access to *)
(* the store to the next; "inflight[s]" holds the handler's position (pc), *)
(* its request and the documents it has read.  Notifications are taken as  *)
(* sent.  registerClient's second step covers Client.create and the token  *)
(* issuance that follows it: until that step answers, no other stepwise     *)
(* handler can name the new record (update and logout need its access      *)
(* token, refresh its refresh token).  A request takes the first free slot; *)
(* a response is kept until the next request arrives.                      *)

\* Instants (ms) of SpecRefresh: three different JWT seconds.
ConcInstants == {0, 1000, 2000}

\* Register requests of the stepwise handlers: a@x.io with +911, b@x.io with
\* +912.  UpdateProfile moves a record to any email and phone of the two, so a
\* Register meets records that share its email only, its phone only, or both.
ConcRequests == {Request("Asha", EmailPool[i], PhonePool[i], "pw1") : i \in 1..2}

ConcUpdates == {Request("Asha", email, phone, "") : email \in Emails, phone \in Phones}

PresentedTokens ==
    {GenerateRefreshToken(clients[id], t) :
        id \in Ids(clients), t \in {u \in ConcInstants : u <= now}}

Free(s) == /\ inflight[s].pc = "done"
           /\ \A t \in Slots : t < s => inflight[t].pc # "done"

\* A request in flight: the handler (op), its position (pc), the request's
\* arguments (args), the documents and tokens the handler holds (held), and its
\* response once it has answered.
InFlight(op, pc, args, held) ==
    [op |-> op, pc |-> pc, args |-> args, held |-> held, resp |-> NoResponse]

Begin(s, request) ==
    [t \in Slots |->
        IF t = s THEN request
        ELSE IF inflight[t].pc = "done" THEN Idle
        ELSE inflight[t]]

Answer(s, op, args, response) ==
    Begin(s, [InFlight(op, "done", args, Null) EXCEPT !.resp = response])

Finish(s, response) ==
    [inflight EXCEPT ![s] = [@ EXCEPT !.pc = "done", !.held = Null, !.resp = response]]

RegisterFindOne(s, req) ==
    LET op == "registerClient" IN
    /\ Free(s)
    /\ inflight' =
          IF ~AllFieldsPresent(req)
          THEN Answer(s, op, req, ApiError(op, 400, "All fields are required"))
          ELSE IF ExistingClient(clients, req) # {}
          THEN Answer(s, op, req, ApiError(op, 400, "Email or phone already exists"))
          ELSE Begin(s, InFlight(op, "create", req, Null))
    /\ UNCHANGED <<clients, now, resp>>

RegisterCreate(s, otp) ==
    LET op == "registerClient"
        req == inflight[s].args
        id == Cardinality(Ids(clients)) + 1
        client == PreSave(NewDoc(id, req, otp, now), TRUE)
        tokens == GenerateAccessRefreshTokens(Put(clients, client), id, now)
    IN
    /\ inflight[s].op = op
    /\ inflight[s].pc = "create"
    /\ IF ~SchemaValid(client) \/ UniqueIndexViolated(clients, client) THEN
           /\ inflight' = Finish(s, CreateFailure(op))
           /\ UNCHANGED clients
       ELSE
           /\ clients' = tokens.store
           /\ inflight' = Finish(s, ApiResponse(op, 201, Select(client, {}),
                                                "Client registered successfully!",
                                                TokenCookies(tokens.accessToken,
                                                             tokens.refreshToken)))
    /\ UNCHANGED <<now, resp>>

UpdateFindById(s, id, req) ==
    LET client == clients[id]
        changed == req.email # client.email \/ req.phone # client.phone
    IN
    /\ Free(s)
    /\ id \in Ids(clients)
    /\ inflight' = Begin(s, InFlight("updateClient",
                                     IF changed THEN "findOne" ELSE "save",
                                     [id |-> id, req |-> req], client))
    /\ UNCHANGED <<clients, now, resp>>

UpdateFindOne(s) ==
    LET r == inflight[s]
        req == r.args.req
        existingClient == FindOneByEmailOrPhone(clients, req.email, req.phone, r.args.id)
    IN
    /\ r.op = "updateClient"
    /\ r.pc = "findOne"
    /\ inflight' =
          IF existingClient # {}
          THEN Finish(s, ApiError(r.op, 400, "Email or phone already in use"))
          ELSE [inflight EXCEPT ![s].pc = "save"]
    /\ UNCHANGED <<clients, now, resp>>

ModifiedPaths(before, after) == {f \in DOMAIN after : after[f] # before[f]}

\* document.save(): an update, by _id, that sets the paths modified since the
\* document was read; the other paths of the stored document stay as they are.
SaveModified(store, before, after) ==
    LET stored == store[after._id]
    IN  [store EXCEPT ![after._id] =
            [f \in DOMAIN stored |->
                IF f \in ModifiedPaths(before, after) THEN after[f] ELSE stored[f]]]

UpdateSave(s) ==
    LET r == inflight[s]
        req == r.args.req
        client == r.held
        assigned == [UpdatedPassword(client, req.password) EXCEPT
                        !.name = req.name, !.email = req.email, !.phone = req.phone,
                        !.age = req.age, !.gender = req.gender]
        saved == PreSave(assigned, assigned.password # client.password)
        store == SaveModified(clients, client, saved)
    IN
    /\ r.op = "updateClient"
    /\ r.pc = "save"
    /\ IF ~SchemaValid(assigned) THEN
           /\ inflight' = Finish(s, ApiError(r.op, 500, "ValidationError"))
           /\ UNCHANGED clients
       ELSE IF UniqueIndexViolated(clients, store[client._id]) THEN
           /\ inflight' = Finish(s, ApiError(r.op, 500, "MongoServerError"))
           /\ UNCHANGED clients
       ELSE
           /\ clients' = store
           /\ inflight' = Finish(s, ApiResponse(r.op, 200, Select(saved, {}),
                                                "Client updated successfully", NoCookies))
    /\ UNCHANGED <<now, resp>>

RefreshVerify(s, incomingToken) ==
    LET op == "refreshAccessToken" IN
    /\ Free(s)
    /\ inflight' =
          IF incomingToken = Undefined
          THEN Answer(s, op, incomingToken, ApiError(op, 401, "Unauthorized request"))
          ELSE IF ~JwtVerify(incomingToken, "REFRESH_TOKEN_SECRET")
          THEN Answer(s, op, incomingToken, ApiError(op, 500, "JsonWebTokenError"))
          ELSE IF RefreshRejected(clients, incomingToken)
          THEN Answer(s, op, incomingToken,
                      ApiError(op, 401, "Invalid or expired refresh token"))
          ELSE Begin(s, InFlight(op, "findById", incomingToken, Null))
    /\ UNCHANGED <<clients, now, resp>>

RefreshFindById(s) ==
    LET r == inflight[s]
        client == clients[r.args.id]
    IN
    /\ r.op = "refreshAccessToken"
    /\ r.pc = "findById"
    /\ inflight' = [inflight EXCEPT ![s] =
                       InFlight(r.op, "save", r.args,
                                [client |-> client,
                                 accessToken |-> GenerateAccessToken(client, now),
                                 refreshToken |-> GenerateRefreshToken(client, now)])]
    /\ UNCHANGED <<clients, now, resp>>

SaveFilter_PreviousToken(store, r) ==
    r.held.client._id \in Ids(store) /\ store[r.held.client._id].refreshToken = r.args

SaveFilter(store, r) == r.held.client._id \in Ids(store)

RefreshSave(s) ==
    LET r == inflight[s]
        tokens == r.held
        saved == [tokens.client EXCEPT !.refreshToken = tokens.refreshToken]
    IN
    /\ r.op = "refreshAccessToken"
    /\ r.pc = "save"
    /\ IF ~SaveFilter(clients, r) THEN
           /\ inflight' = Finish(s, ApiError(r.op, 500, "DocumentNotFoundError"))
           /\ UNCHANGED clients
       ELSE
           /\ clients' = SaveModified(clients, tokens.client, saved)
           /\ inflight' = Finish(s, ApiResponse(r.op, 200,
                                                [accessToken |-> tokens.accessToken,
                                                 refreshToken |-> tokens.refreshToken],
                                                "Token refreshed",
                                                TokenCookies(tokens.accessToken,
                                                             tokens.refreshToken)))
    /\ UNCHANGED <<now, resp>>

\* The requests in flight when the logout is handled are kept with it (held).
LogoutFindByIdAndUpdate(s, id) ==
    LET op == "logoutClient" IN
    /\ Free(s)
    /\ id \in Ids(clients)
    /\ clients' = [clients EXCEPT ![id] = LoggedOut(clients[id])]
    /\ inflight' = Begin(s, [InFlight(op, "done", id,
                                      {t \in Slots \ {s} : inflight[t].pc # "done"})
                             EXCEPT !.resp = ApiResponse(op, 200, id,
                                                         "Client logged out successfully",
                                                         ClearedCookies)])
    /\ UNCHANGED <<now, resp>>

NextUnique ==
    \/ \E s \in Slots, req \in ConcRequests : RegisterFindOne(s, req)
    \/ \E s \in Slots, otp \in GenerateOTP :
          RegisterCreate(s, otp) /\ Cardinality(Ids(clients')) <= MaxClients
    \/ \E s \in Slots, id \in 1..MaxClients, req \in ConcUpdates : UpdateFindById(s, id, req)
    \/ \E s \in Slots : UpdateFindOne(s)
    \/ \E s \in Slots : UpdateSave(s)

SpecUnique == Init /\ [][NextUnique]_vars

NextRefresh ==
    \/ /\ clients = <<>>
       /\ RegisterClient(ListRequest(1), "100000", "sent")
       /\ UNCHANGED inflight
    \/ \E s \in Slots, token \in PresentedTokens : RefreshVerify(s, token)
    \/ \E s \in Slots : RefreshFindById(s)
    \/ \E s \in Slots : RefreshSave(s)
    \/ \E s \in Slots, id \in 1..MaxClients : LogoutFindByIdAndUpdate(s, id)
    \/ \E t \in ConcInstants : Tick(t) /\ UNCHANGED inflight

SpecRefresh == Init /\ [][NextRefresh]_vars

----------------------------------------------------------------------------
(* Properties *)

Duplicates(req) ==
    \E id \in Ids(clients) :
        clients[id].email = req.email \/ clients[id].phone = req.phone

SomeFieldBlank(req) ==
    "" \in {req.name, req.email, req.phone, req.password, req.age, req.gender}

\* C1 (as stated): a Register request whose email or phone equals that of a
\* persisted record fails with 400 "Email or phone already exists" and leaves
\* the number of persisted records unchanged.
C1_DuplicateAlwaysConflict ==
    [][resp'.op = "registerClient" =>
         \A req \in RegisterInputs, otp \in GenerateOTP :
            (RegisterClient(req, otp, "sent") /\ Duplicates(req)) =>
               /\ resp'.status = 400
               /\ resp'.message = "Email or phone already exists"
               /\ Cardinality(Ids(clients')) = Cardinality(Ids(clients))]_vars

\* C1 (amended): a Register request with every required field non-blank whose
\* email or phone equals that of a persisted record fails with 400 "Email or
\* phone already exists"; a duplicate request with a blank field fails with 400
\* "All fields are required"; either way the set of persisted records is
\* unchanged.
C1_ValidDuplicateConflicts ==
    [][resp'.op = "registerClient" =>
         \A req \in RegisterInputs, otp \in GenerateOTP :
            (RegisterClient(req, otp, "sent") /\ Duplicates(req)) =>
               /\ resp'.status = 400
               /\ resp'.message = IF SomeFieldBlank(req)
                                  THEN "All fields are required"
                                  ELSE "Email or phone already exists"
               /\ clients' = clients]_vars

C1_Witness ==
    /\ resp.op = "registerClient"
    /\ resp.message = "Email or phone already exists"
    /\ Cardinality(Ids(clients)) = 1

\* C2: a record created by Register has verified = false; while an account is
\* unverified every Login with its email fails with 401, whatever the password;
\* and only a successful VerifyEmail or VerifyOtp makes an account verified.
C2_UnverifiedCannotLogin ==
    [][/\ (resp'.op = "registerClient" /\ resp'.status = 201) =>
             /\ Ids(clients') \ Ids(clients) = {resp'.data._id}
             /\ ~clients'[resp'.data._id].verified
       /\ resp'.op = "loginClient" =>
             \A email \in Emails, password \in Passwords :
                (/\ LoginClient(email, password)
                 /\ \E id \in Ids(clients) :
                       clients[id].email = email /\ ~clients[id].verified) =>
                   resp'.status = 401 /\ clients' = clients
       /\ \A id \in Ids(clients) :
             (~clients[id].verified /\ clients'[id].verified) =>
                resp'.op \in {"verifyEmail", "verifyOtp"} /\ resp'.status = 200]_vars

C2_Witness ==
    /\ resp.op = "loginClient"
    /\ resp.status = 401
    /\ resp.message = "Please verify your email first"
    /\ \A id \in Ids(clients) :
          ~clients[id].verified /\ clients[id].refreshToken = Null

CodeStored(client, otp) == client.otp = Str(otp)

PastExpiry(client, t) == client.otpExpires.tag = "date" /\ client.otpExpires.v < t

OtpCleared(client) ==
    /\ client.otp \in {Null, Undefined}
    /\ client.otpExpires \in {Null, Undefined}

VerifiedOnceBy(id, otp) ==
    LET client == clients[id] IN
    /\ (CodeStored(client, otp) /\ ~PastExpiry(client, now)) =>
          /\ resp'.status = 200
          /\ ~client.verified
          /\ clients'[id].verified
          /\ OtpCleared(clients'[id])
    /\ client.verified =>
          /\ resp'.status = 400
          /\ resp'.message \in {"Invalid or expired OTP", "Email and OTP are required",
                                "Client ID and OTP are required"}
          /\ clients' = clients

\* C3: through either verification path, a call with the stored code made no
\* later than otpExpires succeeds, sets verified = true and clears otp and
\* otpExpires; every verification call for an account that is already verified
\* fails with 400 "Invalid or expired OTP" (or the validation error for a blank
\* code) and changes nothing, so verification succeeds at most once per account.
C3_VerifiesExactlyOnce ==
    [][/\ resp'.op = "verifyEmail" =>
             \A email \in Emails, otp \in Otps \cup {""} :
                VerifyEmail(email, otp) =>
                   \A id \in FindOneByEmail(clients, email) : VerifiedOnceBy(id, otp)
       /\ resp'.op = "verifyOtp" =>
             \A id \in Ids(clients), otp \in Otps \cup {""} :
                VerifyOtp(id, otp) => VerifiedOnceBy(id, otp)
       /\ (resp'.op \in {"verifyEmail", "verifyOtp"} /\ resp'.status = 200) =>
             \E id \in Ids(clients) :
                /\ ~clients[id].verified /\ clients'[id].verified
                /\ \A other \in Ids(clients) \ {id} : clients'[other] = clients[other]]_vars

C3_Witness ==
    /\ resp.op \in {"verifyEmail", "verifyOtp"}
    /\ resp.message = "Invalid or expired OTP"
    /\ Ids(clients) # {}
    /\ \A id \in Ids(clients) : clients[id].verified /\ OtpCleared(clients[id])

RejectedAsExpired(id, otp) ==
    PastExpiry(clients[id], now) =>
       /\ resp'.status = 400
       /\ otp # "" => resp'.message = "Invalid or expired OTP"
       /\ clients' = clients

\* C4: through either verification path, a call made when the clock is past the
\* stored otpExpires (registration time + 5 minutes) fails, with 400 "Invalid or
\* expired OTP" whenever a code is supplied, the stored code included, and
\* leaves verified, otp and otpExpires unchanged.
C4_ExpiredCodeRejected ==
    [][/\ resp'.op = "verifyEmail" =>
             \A email \in Emails, otp \in Otps \cup {""} :
                VerifyEmail(email, otp) =>
                   \A id \in FindOneByEmail(clients, email) : RejectedAsExpired(id, otp)
       /\ resp'.op = "verifyOtp" =>
             \A id \in Ids(clients), otp \in Otps \cup {""} :
                VerifyOtp(id, otp) => RejectedAsExpired(id, otp)
       /\ (resp'.op = "registerClient" /\ resp'.status = 201) =>
             clients'[resp'.data._id].otpExpires = Date(now + 300000)]_vars

C4_Witness ==
    /\ resp.op \in {"verifyEmail", "verifyOtp"}
    /\ resp.message = "Invalid or expired OTP"
    /\ Ids(clients) # {}
    /\ \A id \in Ids(clients) :
          /\ ~clients[id].verified
          /\ clients[id].otp \in {Str(otp) : otp \in Otps}
          /\ PastExpiry(clients[id], now)

\* C5: a Login with the correct password on a verified account succeeds with an
\* access/refresh token pair, and the refresh token it returns (in the body and
\* in the cookie) is the refreshToken stored on the record when Login completes.
C5_LoginReturnsStoredToken ==
    [][resp'.op = "loginClient" =>
         \A email \in Emails, password \in Passwords :
            LoginClient(email, password) =>
               \A id \in FindOneByEmail(clients, email) :
                  (clients[id].verified
                   /\ clients[id].password = BcryptHash(Plain(password))) =>
                     /\ resp'.status = 200
                     /\ resp'.data.accessToken.tag = "jwt"
                     /\ resp'.data.refreshToken.tag = "jwt"
                     /\ resp'.data.refreshToken = clients'[id].refreshToken
                     /\ resp'.cookies.refreshToken = clients'[id].refreshToken]_vars

C5_Witness ==
    /\ resp.op = "loginClient"
    /\ resp.status = 200
    /\ \E id \in Ids(clients) :
          /\ clients[id].verified
          /\ resp.data.client._id = id
          /\ clients[id].refreshToken = resp.data.refreshToken

\* C6 (as stated): RefreshAccessToken with a validly signed token that differs
\* from the stored one fails with 401 and leaves the store unchanged; with the
\* stored token it succeeds and afterwards the stored refreshToken differs from
\* the presented token, however soon after issuance the refresh is made.
C6_RefreshRotatesToken ==
    [][resp'.op = "refreshAccessToken" =>
         \A token \in SignedRefreshTokens :
            RefreshAccessToken(token) =>
               IF token # clients[token.id].refreshToken
               THEN resp'.status = 401 /\ clients' = clients
               ELSE /\ resp'.status = 200
                    /\ clients'[token.id].refreshToken # token]_vars

\* C7: Logout leaves the stored refreshToken null; while it is null every
\* RefreshAccessToken presenting a signed refresh token of that account fails
\* with 401 and changes nothing; and only a successful Login stores a token on
\* the record again.
C7_LogoutRevokesRefresh ==
    [][/\ resp'.op = "logoutClient" =>
             /\ resp'.status = 200
             /\ clients'[resp'.data].refreshToken = Null
       /\ resp'.op = "refreshAccessToken" =>
             \A token \in SignedRefreshTokens :
                (RefreshAccessToken(token) /\ clients[token.id].refreshToken = Null) =>
                   resp'.status = 401 /\ clients' = clients
       /\ \A id \in Ids(clients) :
             (clients[id].refreshToken = Null /\ clients'[id].refreshToken # Null) =>
                resp'.op = "loginClient" /\ resp'.status = 200]_vars

C7_Witness ==
    /\ resp.op = "refreshAccessToken"
    /\ resp.status = 401
    /\ resp.message = "Invalid or expired refresh token"
    /\ Ids(clients) # {}
    /\ \A id \in Ids(clients) : clients[id].refreshToken = Null

SensitiveFields == {"password", "refreshToken", "otp", "otpExpires"}

\* C8 (as stated): the record projection returned by Login, GetCurrent, List and
\* GetById contains none of the fields password, refreshToken, otp, otpExpires.
C8_ProjectionsSanitized ==
    resp.status = 200 =>
       /\ resp.op = "loginClient" => DOMAIN resp.data.client \cap SensitiveFields = {}
       /\ resp.op \in {"getCurrentClient", "getClientById"} =>
             DOMAIN resp.data \cap SensitiveFields = {}
       /\ resp.op = "getAllClients" =>
             \A k \in 1..Len(resp.data.clients) :
                DOMAIN resp.data.clients[k] \cap SensitiveFields = {}

HashedOnce(stored, password) ==
    /\ stored = BcryptHash(Plain(password))
    /\ \A candidate \in Passwords :
          BcryptCompare(candidate, stored) <=> candidate = password

\* C9 (as stated): whenever Register or UpdateProfile sets a record's password
\* to plaintext p, the persisted password is p hashed exactly once, so the
\* password check of Login succeeds with p and fails with every other string.
C9_PasswordHashedOnce ==
    [][/\ (resp'.op = "registerClient" /\ resp'.status = 201) =>
             \A req \in RegisterInputs, otp \in GenerateOTP :
                RegisterClient(req, otp, "sent") =>
                   HashedOnce(clients'[resp'.data._id].password, req.password)
       /\ (resp'.op = "updateClient" /\ resp'.status = 200) =>
             \A id \in Ids(clients), req \in UpdateInputs :
                (UpdateClient(id, req) /\ req.password # "") =>
                   HashedOnce(clients'[id].password, req.password)]_vars

Matching(verified, gender) ==
    {id \in Ids(clients) :
        /\ verified = "true" => clients[id].verified
        /\ verified = "false" => ~clients[id].verified
        /\ gender # "" => clients[id].gender = gender}

\* C10: List with page p >= 1 and limit l >= 1 over N records matching the
\* filter returns min(l, max(0, N - (p-1)*l)) records, totalPages = ceil(N / l),
\* hasNextPage exactly when p < totalPages and hasPrevPage exactly when p > 1.
C10_Pagination ==
    resp.op = "getAllClients" =>
       LET p == resp.query.page
           l == resp.query.limit
           n == Cardinality(Matching(resp.query.verified, resp.query.gender))
           left == n - (p - 1) * l
           pages == CHOOSE k \in 0..n : k * l >= n /\ (k = 0 \/ (k - 1) * l < n)
       IN  /\ p >= 1 /\ l >= 1
           /\ Len(resp.data.clients) = (IF left < 0 THEN 0 ELSE IF left < l THEN left ELSE l)
           /\ resp.data.pagination.totalPages = pages
           /\ resp.data.pagination.hasNextPage <=> p < pages
           /\ resp.data.pagination.hasPrevPage <=> p > 1

C10_Witness ==
    /\ resp.op = "getAllClients"
    /\ resp.query.page = 2
    /\ resp.query.limit = 1
    /\ resp.data.pagination.totalClients = 3
    /\ resp.data.pagination.totalPages = 3
    /\ Len(resp.data.clients) = 1
    /\ resp.data.pagination.hasNextPage
    /\ resp.data.pagination.hasPrevPage

\* C12 (as stated): a record whose stored refreshToken is non-null is verified,
\* and an operation that sets token cookies does so for a verified record.
C12_TokensOnlyForVerified ==
    /\ \A id \in Ids(clients) :
          clients[id].refreshToken # Null => clients[id].verified
    /\ resp.cookies.tag = "set" =>
          clients[resp.cookies.refreshToken.id].verified

\* C15 (as stated): the refresh token an operation sets in the cookie is the
\* refreshToken stored on the record when the operation completes.
C15_IssuedTokenPersisted ==
    resp.cookies.tag = "set" =>
       clients[resp.cookies.refreshToken.id].refreshToken = resp.cookies.refreshToken

\* C16: a Register whose SMS or e-mail notification fails is answered with an
\* error, persists nothing and sets no token cookies; put the other way round,
\* a Register that answers success, sets a cookie or changes the store is one
\* whose notifications were both sent.
C16_NotificationFailureFatal ==
    [][(/\ resp'.op = "registerClient"
        /\ resp'.status < 400 \/ resp'.cookies # NoCookies \/ clients' # clients) =>
          \A req \in RegisterInputs, otp \in GenerateOTP, sink \in Sinks :
             RegisterClient(req, otp, sink) => sink = "sent"]_vars

C16_Witness ==
    /\ resp.op = "registerClient"
    /\ resp.status = 500
    /\ resp.message \in {"SMS failed", "Email failed"}
    /\ clients = <<>>

RecordsReturned(r) ==
    IF r.status \notin {200, 201} THEN {}
    ELSE IF r.op \in {"registerClient", "updateClient", "getCurrentClient",
                      "getClientById"} THEN {r.data}
    ELSE IF r.op = "loginClient" THEN {r.data.client}
    ELSE IF r.op = "getAllClients"
         THEN {r.data.clients[k] : k \in 1..Len(r.data.clients)}
    ELSE {}

\* C17 (as stated): no response of Register, Login, UpdateProfile, GetCurrent,
\* List or GetById carries the stored otp of a record that is still unverified.
C17_OtpOnlyByNotification ==
    \A id \in Ids(clients) :
       (~clients[id].verified /\ clients[id].otp.tag = "string") =>
          \A doc \in RecordsReturned(resp) :
             ~("otp" \in DOMAIN doc /\ doc._id = id /\ doc.otp = clients[id].otp)

\* C18: a record that is verified stays in the store and stays verified across
\* every step (Login, Logout, RefreshAccessToken, UpdateProfile with a new email
\* or phone, further verification attempts, Register of other accounts).
C18_VerifiedMonotonic ==
    [][\A id \in Ids(clients) :
          clients[id].verified => (id \in Ids(clients') /\ clients'[id].verified)]_vars

C18_Witness ==
    /\ resp.op = "updateClient"
    /\ resp.status = 200
    /\ resp.data.email = EmailPool[2]
    /\ resp.data.password.rounds = 2
    /\ clients[resp.data._id].verified
    /\ clients[resp.data._id].refreshToken # Null

ExpiredUnverified(id) == ~clients[id].verified /\ PastExpiry(clients[id], now)

\* C19: otp and otpExpires are set when Register creates the record and are
\* afterwards only cleared, by the successful verification; a record that is
\* unverified with the clock past its otpExpires is unverified and past expiry
\* after every step; every Login for it fails with 401 and every Register with
\* its email or phone is rejected with 400, both leaving the store unchanged
\* (stated as: a Login or Register that answers otherwise, or changes the
\* store, concerns no such record).
C19_ExpiredNeverVerifies ==
    [][/\ \A id \in Ids(clients') \ Ids(clients) :
             /\ resp'.op = "registerClient"
             /\ clients'[id].otp.tag = "string"
             /\ clients'[id].otpExpires = Date(now + OtpWindowMs)
       /\ \A id \in Ids(clients) :
             /\ (clients'[id].otp # clients[id].otp
                    \/ clients'[id].otpExpires # clients[id].otpExpires) =>
                   /\ resp'.op \in {"verifyEmail", "verifyOtp"}
                   /\ resp'.status = 200
                   /\ OtpCleared(clients'[id])
             /\ ExpiredUnverified(id) =>
                   /\ ~clients'[id].verified
                   /\ PastExpiry(clients'[id], now')
       /\ (resp'.op = "loginClient" /\ (resp'.status # 401 \/ clients' # clients)) =>
             \A email \in Emails, password \in Passwords :
                LoginClient(email, password) =>
                   \A id \in FindOneByEmail(clients, email) : ~ExpiredUnverified(id)
       /\ (resp'.op = "registerClient" /\ (resp'.status # 400 \/ clients' # clients)) =>
             \A req \in RegisterInputs, otp \in GenerateOTP, sink \in Sinks :
                RegisterClient(req, otp, sink) =>
                   \A id \in Ids(clients) :
                      ExpiredUnverified(id) =>
                         clients[id].email # req.email /\ clients[id].phone # req.phone]_vars

C19_Witness ==
    /\ resp.op = "loginClient"
    /\ resp.status = 401
    /\ resp.message = "Please verify your email first"
    /\ now > OtpWindowMs
    /\ Ids(clients) # {}
    /\ \A id \in Ids(clients) : ExpiredUnverified(id) /\ clients[id].otp = Str("100000")

\* C11: in every state reached by the stepwise Register and UpdateProfile
\* handlers, whose existence check and write are separate steps that interleave
\* freely, no two persisted records share an email and no two share a phone.
C11_EmailPhoneUnique ==
    \A a, b \in Ids(clients) :
       a # b => /\ clients[a].email # clients[b].email
                /\ clients[a].phone # clients[b].phone

C11_Witness ==
    /\ Cardinality(Ids(clients)) = 2
    /\ \E s \in Slots :
          /\ inflight[s].op = "updateClient"
          /\ inflight[s].resp.status = 500
          /\ inflight[s].resp.message = "MongoServerError"
          /\ \E id \in Ids(clients) \ {inflight[s].args.id} :
                clients[id].email = inflight[s].args.req.email

PassedExistenceCheck(r) ==
    /\ r.op = "registerClient"
    /\ r.pc = "done"
    /\ r.resp.status # 400

\* C14: a Register that passed the existence check and reaches Client.create
\* when a record with its email or phone has been persisted meanwhile is
\* answered 500 "Could not create client" with no token cookies and persists
\* nothing, and otherwise creates exactly one record; of two answered Registers
\* with a common email or phone that both passed the check, at most one created
\* a record.
C14_RaceLoserGetsCreationFailure ==
    [][/\ \A s \in Slots :
             (/\ inflight[s].op = "registerClient"
              /\ inflight[s].pc = "create"
              /\ inflight'[s].pc = "done") =>
                IF Duplicates(inflight[s].args)
                THEN /\ inflight'[s].resp.status = 500
                     /\ inflight'[s].resp.message = "Could not create client"
                     /\ inflight'[s].resp.cookies = NoCookies
                     /\ clients' = clients
                ELSE /\ inflight'[s].resp.status = 201
                     /\ Cardinality(Ids(clients')) = Cardinality(Ids(clients)) + 1
       /\ \A a, b \in Slots :
             (/\ a # b
              /\ PassedExistenceCheck(inflight'[a])
              /\ PassedExistenceCheck(inflight'[b])
              /\ \/ inflight'[a].args.email = inflight'[b].args.email
                 \/ inflight'[a].args.phone = inflight'[b].args.phone) =>
                ~(inflight'[a].resp.status = 201 /\ inflight'[b].resp.status = 201)]_vars

C14_Witness ==
    \E a, b \in Slots :
       /\ PassedExistenceCheck(inflight[a])
       /\ PassedExistenceCheck(inflight[b])
       /\ inflight[a].args.email = inflight[b].args.email
       /\ inflight[a].resp.status = 201
       /\ inflight[b].resp.status = 500
       /\ inflight[b].resp.message = "Could not create client"
       /\ inflight[b].resp.cookies = NoCookies
       /\ Cardinality(FindOneByEmail(clients, inflight[a].args.email)) = 1

RefreshedConcurrently(a, b) ==
    /\ a # b
    /\ inflight[a].op = "refreshAccessToken" /\ inflight[a].pc = "done"
    /\ inflight[b].op = "refreshAccessToken" /\ inflight[b].pc = "done"
    /\ inflight[a].resp.status = 200
    /\ inflight[b].resp.status = 200
    /\ inflight[a].args = inflight[b].args
    /\ inflight[a].resp.data.refreshToken # inflight[a].args
    /\ inflight[b].resp.data.refreshToken # inflight[b].args

\* C13: the rotation is a check-then-set with nothing between the two: a
\* RefreshAccessToken that has passed the equality check goes on to sign a pair
\* and to answer 200 with that pair, whatever has been written to the record
\* since its check (the stored token may no longer be the presented one); of
\* two such answers to the same presented token with different new refresh
\* tokens, at most one is the stored token.
C13_RefreshCheckThenSet ==
    [][/\ \A s \in Slots :
             (inflight[s].op = "refreshAccessToken" /\ inflight'[s] # inflight[s]) =>
                /\ inflight[s].pc = "findById" => inflight'[s].pc = "save"
                /\ inflight[s].pc = "save" =>
                      /\ inflight'[s].pc = "done"
                      /\ inflight'[s].resp.status = 200
                      /\ inflight'[s].resp.cookies.refreshToken = inflight[s].held.refreshToken
                      /\ inflight'[s].resp.cookies.accessToken = inflight[s].held.accessToken
       /\ \A a, b \in Slots :
             (/\ RefreshedConcurrently(a, b)
              /\ inflight[a].resp.data.refreshToken # inflight[b].resp.data.refreshToken) =>
                \/ clients[inflight[a].args.id].refreshToken # inflight[a].resp.data.refreshToken
                \/ clients[inflight[a].args.id].refreshToken # inflight[b].resp.data.refreshToken]_vars

C13_Witness ==
    \E a, b \in Slots :
       /\ RefreshedConcurrently(a, b)
       /\ inflight[a].resp.data.refreshToken # inflight[b].resp.data.refreshToken
       /\ inflight[a].resp.data.accessToken # inflight[b].resp.data.accessToken
       /\ clients[inflight[a].args.id].refreshToken = inflight[a].resp.data.refreshToken
       /\ clients[inflight[a].args.id].refreshToken # inflight[b].resp.data.refreshToken

\* C20 (as stated): when a Logout and a RefreshAccessToken of the same account
\* that was in flight while the Logout was handled have both answered, the
\* stored refreshToken is null.
C20_LogoutFinal ==
    \A a, b \in Slots :
       (/\ inflight[a].op = "logoutClient"
        /\ b \in inflight[a].held
        /\ inflight[b].op = "refreshAccessToken"
        /\ inflight[b].pc = "done"
        /\ inflight[b].args.id = inflight[a].args) =>
          clients[inflight[a].args].refreshToken = Null

====
